---- MODULE Spec2Model ----
(***************************************************************************)
(* A model of pinn/networks/pinet.py: the PiNet message-passing network.   *)
(*                                                                         *)
(* Tensors of rank 2 are records [w |-> width, rows |-> <<row, ...>>] with *)
(* integer entries, so that a tensor with no rows still has a width.       *)
(* Atom indices keep the 0-based values of the code; a row index i of the  *)
(* code is element i+1 of a sequence here.  Learned parameters are integer *)
(* matrices selected by a parameter state th: tf.keras draws them at       *)
(* random and an external optimizer changes them between calls, so every   *)
(* statement is checked for each th of Thetas.                             *)
(***************************************************************************)
EXTENDS Integers, Sequences, FiniteSets, TLC

\* ------------------------------------------------------------------ bounds
MaxDepth == 2
MaxCalls == 2
MaxPairs == 3
MaxWidth == 3

Thetas == {0, 1}

\* ------------------------------------------------------------ tensor algebra
Mat(w, rows) == [w |-> w, rows |-> rows]

NRows(t) == Len(t.rows)

Zeros(n, w) == Mat(w, [r \in 1..n |-> [c \in 1..w |-> 0]])

RECURSIVE SumSeq(_)
SumSeq(s) == IF s = <<>> THEN 0 ELSE Head(s) + SumSeq(Tail(s))

\* tf broadcasting of the trailing axis of two (n x a), (n x b) tensors
Broadcastable(a, b) == a = b \/ a = 1 \/ b = 1

BroadcastW(a, b) == IF a >= b THEN a ELSE b

Pick(row, w, c) == IF w = 1 THEN row[1] ELSE row[c]

\* x + y of two tensors with the same number of rows
TensorAdd(x, y) ==
    LET w == BroadcastW(x.w, y.w)
    IN  Mat(w, [r \in 1..NRows(x) |->
                 [c \in 1..w |-> Pick(x.rows[r], x.w, c) + Pick(y.rows[r], y.w, c)]])

\* tf.gather(prop, ind): ind holds 0-based row numbers
Gather(prop, ind) == Mat(prop.w, [p \in 1..Len(ind) |-> prop.rows[ind[p] + 1]])

\* tf.concat([x, y], axis=-1)
Concat(x, y) == Mat(x.w + y.w, [r \in 1..NRows(x) |-> x.rows[r] \o y.rows[r]])

\* ------------------------------------------------------------- dense layers
\* activation functions: the keras names "linear" (also None) and "relu", and
\* a callable x -> x + 1 standing for those that do not map zero to zero
Activation(act, x) ==
    CASE act = "linear" -> x
      [] act = "relu"   -> IF x > 0 THEN x ELSE 0
      [] act = "shift"  -> x + 1

\* the parameters of the dense layer `tag` in parameter state th
Kernel(th, tag, a, b) ==
    [k \in 1..a |-> [c \in 1..b |-> ((th + tag + 2 * k + c) % 4) - 1]]

BiasVal(th, tag, c) == ((th + 2 * tag + c) % 3) - 1

\* keyword arguments of tf.keras.layers.Dense and their defaults
KwActivation(kwargs) ==
    IF "activation" \in DOMAIN kwargs THEN kwargs["activation"] ELSE "linear"

KwUseBias(kwargs) ==
    IF "use_bias" \in DOMAIN kwargs THEN kwargs["use_bias"] ELSE TRUE

\* tf.keras.layers.Dense(units, **kwargs)(x) = h(x . W + b)
Dense(th, tag, units, kwargs, x) ==
    LET K == Kernel(th, tag, x.w, units)
        B == [c \in 1..units |-> IF KwUseBias(kwargs) THEN BiasVal(th, tag, c) ELSE 0]
    IN  Mat(units, [r \in 1..NRows(x) |-> [c \in 1..units |->
            Activation(KwActivation(kwargs),
                       SumSeq([k \in 1..x.w |-> x.rows[r][k] * K[k][c]]) + B[c])]])

\* FFLayer: an object is [n_nodes, kwargs, tag]; call feeds the tensor
\* through one dense layer per entry of n_nodes, in order
FFLayerInit(n_nodes, kwargs, tag) ==
    [n_nodes |-> n_nodes, kwargs |-> kwargs, tag |-> tag]

RECURSIVE FFLayerFrom(_, _, _, _)
FFLayerFrom(th, ff, tensor, k) ==
    IF k > Len(ff.n_nodes) THEN tensor
    ELSE FFLayerFrom(th, ff, Dense(th, ff.tag + k, ff.n_nodes[k], ff.kwargs, tensor), k + 1)

FFLayerCall(th, ff, tensor) == FFLayerFrom(th, ff, tensor, 1)

\* ------------------------------------------------------------------ PILayer
\* __init__ keeps n_nodes and the keyword arguments
PILayerInit(n_nodes, kwargs, tag) ==
    [n_nodes |-> n_nodes, kwargs |-> kwargs, tag |-> tag]

\* build: the last width is multiplied by the basis width, and the FFLayer
\* is created with the keyword arguments given to __init__
PILayerBuild(pi, n_basis) ==
    LET n_nodes_iter == [k \in 1..Len(pi.n_nodes) |->
                            IF k = Len(pi.n_nodes) THEN pi.n_nodes[k] * n_basis
                                                   ELSE pi.n_nodes[k]]
    IN  FFLayerInit(n_nodes_iter, pi.kwargs, pi.tag)

Column(ind_2, j) == [p \in 1..Len(ind_2) |-> ind_2[p][j]]

\* call: gather both endpoints, concatenate (receiver first), feed forward,
\* reshape to (n_pairs, c, n_basis), contract the basis axis
PILayerCall(th, pi, ind_2, prop, basis) ==
    LET n_basis == basis.w
        c       == pi.n_nodes[Len(pi.n_nodes)]
        prop_i  == Gather(prop, Column(ind_2, 1))
        prop_j  == Gather(prop, Column(ind_2, 2))
        inter   == FFLayerCall(th, PILayerBuild(pi, n_basis), Concat(prop_i, prop_j))
    IN  Mat(c, [p \in 1..Len(ind_2) |-> [g \in 1..c |->
            SumSeq([b \in 1..n_basis |->
                      inter.rows[p][(g - 1) * n_basis + b] * basis.rows[p][b]])]])

\* ------------------------------------------------------------------ IPLayer
\* tf.math.unsorted_segment_sum: rows of data are added, in order, onto the
\* row of the result that their segment id names
RECURSIVE SegmentSumFrom(_, _, _, _)
SegmentSumFrom(data, ids, acc, p) ==
    IF p > Len(ids) THEN acc
    ELSE SegmentSumFrom(data, ids,
            [acc EXCEPT ![ids[p] + 1] = [c \in 1..data.w |-> @[c] + data.rows[p][c]]],
            p + 1)

UnsortedSegmentSum(data, ids, n) ==
    Mat(data.w, SegmentSumFrom(data, ids, Zeros(n, data.w).rows, 1))

\* mutant: the rows are summed onto the sender of the pair
IPLayerCallOntoSender(ind_2, prop, inter) ==
    UnsortedSegmentSum(inter, Column(ind_2, 2), NRows(prop))

IPLayerCall(ind_2, prop, inter) ==
    LET n_atoms == NRows(prop)
    IN  UnsortedSegmentSum(inter, Column(ind_2, 1), n_atoms)

\* ----------------------------------------------------------------- OutLayer
NoKwargs == <<>>

\* mutant: the output layer is created with the default use_bias
OutLayerInitBiased(n_nodes, out_units, kwargs, tag) ==
    [ff_layer  |-> FFLayerInit(n_nodes, kwargs, tag),
     out_units |-> [units  |-> out_units,
                    kwargs |-> [activation |-> "linear"],
                    tag    |-> tag + 5]]

\* the hidden FFLayer gets the keyword arguments of the caller; the output
\* layer is a linear dense layer without bias
OutLayerInit(n_nodes, out_units, kwargs, tag) ==
    [ff_layer  |-> FFLayerInit(n_nodes, kwargs, tag),
     out_units |-> [units  |-> out_units,
                    kwargs |-> [activation |-> "linear", use_bias |-> FALSE],
                    tag    |-> tag + 5]]

\* the running output of PiNet.call starts as the python float 0.0
Scalar(v) == [scalar |-> v]

IsScalar(x) == "scalar" \in DOMAIN x

AddOutput(x, prev_output) ==
    IF IsScalar(prev_output)
    THEN Mat(x.w, [r \in 1..NRows(x) |-> [c \in 1..x.w |-> x.rows[r][c] + prev_output.scalar]])
    ELSE TensorAdd(x, prev_output)

\* the contribution of one readout: out_units(ff_layer(prop))
OutLayerTerm(th, ol, prop) ==
    Dense(th, ol.out_units.tag, ol.out_units.units, ol.out_units.kwargs,
          FFLayerCall(th, ol.ff_layer, prop))

\* mutant: the term replaces the previous output instead of adding to it
OutLayerCallReplacing(th, ol, prop, prev_output) == OutLayerTerm(th, ol, prop)

OutLayerCall(th, ol, prop, prev_output) ==
    AddOutput(OutLayerTerm(th, ol, prop), prev_output)

\* ------------------------------------------------------------------ GCBlock
\* a python dict d after d.update(key=value)
DictUpdate(d, upd) == upd @@ d

\* mutant: the ii_layer is created with the keyword arguments of the others
GCBlockInitBiased(pp_nodes, pi_nodes, ii_nodes, kwargs, tag) ==
    [pp_layer |-> FFLayerInit(pp_nodes, kwargs, tag),
     pi_layer |-> PILayerInit(pi_nodes, kwargs, tag + 3),
     ii_layer |-> FFLayerInit(ii_nodes, kwargs, tag + 6)]

GCBlockInit(pp_nodes, pi_nodes, ii_nodes, kwargs, tag) ==
    LET iiargs == DictUpdate(kwargs, "use_bias" :> FALSE)
    IN  [pp_layer |-> FFLayerInit(pp_nodes, kwargs, tag),
         pi_layer |-> PILayerInit(pi_nodes, kwargs, tag + 3),
         ii_layer |-> FFLayerInit(ii_nodes, iiargs, tag + 6)]

\* the interaction handed to the IPLayer (lines 243-245)
GCBlockInter(th, blk, ind_2, prop0, basis) ==
    LET prop  == FFLayerCall(th, blk.pp_layer, prop0)
        inter == PILayerCall(th, blk.pi_layer, ind_2, prop, basis)
    IN  FFLayerCall(th, blk.ii_layer, inter)

GCBlockCall(th, blk, ind_2, prop0, basis) ==
    LET prop  == FFLayerCall(th, blk.pp_layer, prop0)
        inter == GCBlockInter(th, blk, ind_2, prop0, basis)
    IN  IPLayerCall(ind_2, prop, inter)

\* ---------------------------------------------------------------- ResUpdate
NoTensor == Mat(0, <<>>)

ResUpdateInit(tag) ==
    [built |-> FALSE, transform |-> "none", units |-> 0, kwargs |-> NoKwargs,
     in_w |-> 0, tag |-> tag]

\* mutant: the projection is created with the default use_bias
ResUpdateBuildBiased(ru, a, b) ==
    IF a = b
    THEN [ru EXCEPT !.built = TRUE, !.transform = "identity"]
    ELSE [ru EXCEPT !.built = TRUE, !.transform = "dense", !.units = b,
                    !.kwargs = [activation |-> "linear"]]

\* mutant: the projection is created whatever the widths are
ResUpdateBuildAlwaysDense(ru, a, b) ==
    [ru EXCEPT !.built = TRUE, !.transform = "dense", !.units = b,
               !.kwargs = [activation |-> "linear", use_bias |-> FALSE]]

\* build: shapes are the trailing widths of the two inputs
ResUpdateBuild(ru, a, b) ==
    IF a = b
    THEN [ru EXCEPT !.built = TRUE, !.transform = "identity"]
    ELSE [ru EXCEPT !.built = TRUE, !.transform = "dense", !.units = b,
                    !.kwargs = [activation |-> "linear", use_bias |-> FALSE]]

\* keras runs build on the first call only
ResUpdateMaybeBuild(ru, a, b) == IF ru.built THEN ru ELSE ResUpdateBuild(ru, a, b)

\* self.transform(old): the dense layer creates its kernel for the width it
\* first sees and refuses any other width afterwards
ResUpdateTransform(th, ru, old) ==
    IF ru.transform = "identity" THEN old
    ELSE Dense(th, ru.tag, ru.units, ru.kwargs, old)

\* call: the layer after the call, the error raised ("" when none) and the
\* value returned
ResUpdateCall(th, ru0, old, new) ==
    LET ru   == ResUpdateMaybeBuild(ru0, old.w, new.w)
        bad  == ru.transform = "dense" /\ ru.in_w # 0 /\ ru.in_w # old.w
        ru1  == IF ru.transform = "dense" /\ ru.in_w = 0
                THEN [ru EXCEPT !.in_w = old.w] ELSE ru
        t    == ResUpdateTransform(th, ru1, old)
    IN  IF bad
        THEN [layer |-> ru, err |-> "ValueError", value |-> NoTensor]
        ELSE IF ~Broadcastable(t.w, new.w)
        THEN [layer |-> ru1, err |-> "InvalidArgumentError", value |-> NoTensor]
        ELSE [layer |-> ru1, err |-> "", value |-> TensorAdd(t, new)]

\* ==================================================================== state
VARIABLES
    args,     \* the arguments given to PiNet(...)
    net,      \* the PiNet object: "none" before construction, else its fields
    theta,    \* the parameter state of the object's dense layers
    pc,       \* position of the caller / of PiNet.call
    bag,      \* the caller's input dictionary
    tensors,  \* the dictionary that the local name `tensors` of PiNet.call refers to
    tref,     \* which object that is: "bag" (the caller's) or "local" (a copy)
    start,    \* history: the dictionary the first call came out of preprocessing with
    basis,    \* local: the basis tensor
    i,        \* local: the loop index
    prop,     \* local: the candidate returned by the block of this step
    output,   \* local: the running output
    result,   \* the value returned by the last call, or the error raised
    calls,    \* number of forward calls started
    trace,    \* history: one record per depth step of the current call
    ru,       \* a ResUpdate layer used on its own
    rcall,    \* the last call made to ru
    rshape,   \* history: the widths of the call that built ru
    fn        \* a layer function applied to drawn inputs

netVars == <<args, net, theta, pc, bag, tensors, tref, start, basis, i, prop, output, result, calls, trace>>
resVars == <<ru, rcall, rshape>>
vars == <<args, net, theta, pc, bag, tensors, tref, start, basis, i, prop, output, result, calls, trace,
          ru, rcall, rshape, fn>>

\* --------------------------------------------------- inputs drawn by the checks
MaxGCPairs == 2

AtomsFn == {0, 1, 2}

\* the (2 x w) tensors used as old / new; v = 0 gives the all-zero tensor
TensorsOf(w) ==
    {Mat(w, <<[c \in 1..w |-> v * c], [c \in 1..w |-> v * (c - 2)]>>) : v \in {0, 1, -2}}

\* ordered pairs (receiver, sender) of distinct atoms
PairsOver(A) == {<<a, b>> : a \in A, b \in A} \ {<<a, a>> : a \in A}

\* ================================================= ResUpdate used on its own
ResIdle == [n |-> 0, first |-> FALSE, a |-> 0, b |-> 0, old |-> NoTensor,
            new |-> NoTensor, err |-> "", value |-> NoTensor]

ResInit ==
    /\ ru = ResUpdateInit(0)
    /\ rcall = ResIdle
    /\ rshape = <<0, 0>>
    /\ theta \in Thetas

\* one call ru([old, new]) with inputs of widths a and b
ResCall ==
    \E a \in 1..MaxWidth, b \in 1..MaxWidth :
      \E old \in TensorsOf(a), new \in TensorsOf(b) :
        LET r == ResUpdateCall(theta, ru, old, new)
        IN  /\ ru' = r.layer
            /\ rshape' = IF ru.built THEN rshape ELSE <<a, b>>
            /\ rcall' = [n |-> 1, first |-> ~ru.built, a |-> a, b |-> b, old |-> old,
                         new |-> new, err |-> r.err, value |-> r.value]
            /\ UNCHANGED <<theta, fn, args, net, pc, bag, tensors, tref, start, basis, i, prop, output,
                           result, calls, trace>>

\* ============================================ layer functions on drawn inputs
FnIdle == [op |-> "none", stage |-> "out"]

GCConfigs ==
    {[pp_nodes |-> pp, pi_nodes |-> <<2>>, ii_nodes |-> ii, act |-> act, th |-> th] :
        pp \in {<<>>, <<2>>}, ii \in {<<2>>},
        act \in {"linear", "relu", "shift"}, th \in Thetas}

FnInputs ==
    {[op |-> "ip", stage |-> "in", ind_2 |-> ind_2,
      prop |-> Zeros(Cardinality(AtomsFn), 1),
      inter |-> Mat(2, [p \in 1..Len(ind_2) |-> rows[p]])] :
        <<ind_2, rows>> \in UNION {[1..k -> PairsOver(AtomsFn)] \X [1..k -> {<<1, -2>>, <<0, 3>>}]
                                     : k \in 0..MaxPairs}}
    \cup
    {[op |-> "gc", stage |-> "in", ind_2 |-> ind_2, cfg |-> cfg,
      prop |-> Mat(2, [r \in 1..Cardinality(AtomsFn) |-> <<r - 1, 1>>]),
      basis |-> Mat(2, [p \in 1..Len(ind_2) |-> rows[p]])] :
        <<ind_2, rows, cfg>> \in UNION {[1..k -> PairsOver(AtomsFn)] \X [1..k -> {<<0, 0>>, <<1, 2>>}]
                                          \X GCConfigs : k \in 0..MaxGCPairs}}

FnInit == fn \in FnInputs

ApplyIPLayer ==
    /\ fn.op = "ip" /\ fn.stage = "in"
    /\ fn' = [fn EXCEPT !.stage = "out"] @@ [out |-> IPLayerCall(fn.ind_2, fn.prop, fn.inter)]
    /\ UNCHANGED <<netVars, resVars>>

FnBlock(x) ==
    GCBlockInit(x.cfg.pp_nodes, x.cfg.pi_nodes, x.cfg.ii_nodes, [activation |-> x.cfg.act], 0)

ApplyGCBlock ==
    /\ fn.op = "gc" /\ fn.stage = "in"
    /\ fn' = [fn EXCEPT !.stage = "out"]
               @@ [out |-> GCBlockCall(fn.cfg.th, FnBlock(fn), fn.ind_2, fn.prop, fn.basis)]
    /\ UNCHANGED <<netVars, resVars>>

\* ===================================================== external collaborators
\* pinn.layers is not part of the source at hand: the neighbour list, the
\* embedding, the cutoff, the basis functions and the output pooling follow
\* their contracts, over integer distances on a line.
Abs(x) == IF x < 0 THEN 0 - x ELSE x

AllPairs(n) == [k \in 1..(n * n) |-> <<(k - 1) \div n, (k - 1) % n>>]

\* CellListNL(rc): the ordered pairs of distinct atoms of one group that are
\* closer than rc, with their distance and displacement
CellListNL(rc, t) ==
    LET n     == Len(t["coord"])
        Near(pr) == /\ pr[1] # pr[2]
                    /\ t["ind_1"][pr[1] + 1] = t["ind_1"][pr[2] + 1]
                    /\ Abs(t["coord"][pr[2] + 1] - t["coord"][pr[1] + 1]) < rc
        ind_2 == SelectSeq(AllPairs(n), Near)
        diff  == [p \in 1..Len(ind_2) |->
                    t["coord"][ind_2[p][2] + 1] - t["coord"][ind_2[p][1] + 1]]
    IN  [ind_2 |-> ind_2,
         dist  |-> [rank |-> 1, v |-> [p \in 1..Len(ind_2) |-> Abs(diff[p])]],
         diff  |-> diff]

\* AtomicOnehot(atom_types): one column per recognized type
AtomicOnehot(atom_types, elems) ==
    Mat(Len(atom_types), [r \in 1..Len(elems.v) |-> [c \in 1..Len(atom_types) |->
            IF elems.v[r] = atom_types[c] THEN 1 ELSE 0]])

\* CutoffFunc(rc, cutoff_type): an envelope that vanishes from rc on
CutoffFunc(rc, dist) == [p \in 1..Len(dist.v) |-> IF dist.v[p] < rc THEN rc - dist.v[p] ELSE 0]

RECURSIVE Power(_, _)
Power(x, k) == IF k = 0 THEN 1 ELSE x * Power(x, k - 1)

\* PolynomialBasis(n_basis): powers of the envelope
PolynomialBasis(n_basis, dist, fc) ==
    Mat(n_basis, [p \in 1..Len(fc) |-> [b \in 1..n_basis |-> Power(fc[p], b)]])

\* GaussianBasis(center, gamma, rc, n_basis): a bump around the b-th center,
\* times the envelope
GaussianBasis(n_basis, dist, fc) ==
    Mat(n_basis, [p \in 1..Len(fc) |-> [b \in 1..n_basis |->
            (IF dist.v[p] = b THEN 2 ELSE 1) * fc[p]]])

Max(S) == CHOOSE x \in S : \A y \in S : y <= x

\* ANNOutput(out_pool): the per-atom output, or its sum per group
ANNOutput(out_pool, ind_1, out) ==
    IF out_pool = "sum"
    THEN UnsortedSegmentSum(out, ind_1, Max({ind_1[r] : r \in 1..Len(ind_1)}) + 1)
    ELSE out

\* ========================================================== PreprocessLayer
\* mutant: no copy is made, the name goes on referring to the same object
DictAlias(ref) == ref

\* tensors.copy(): the object the name refers to afterwards, a new one
DictCopy(ref) == "local"

\* the caller's dictionary after a write through a name referring to `ref`
Written(ref, callers, written) == IF ref = "bag" THEN written ELSE callers

\* tf.reshape(t, tf.shape(t)[:1]): an (n, 1) tensor becomes an (n,) tensor
Reshape1(t) == [t EXCEPT !.rank = 1]

PreprocessLayerCall(pre, tensors0) ==
    LET t0 == tensors0                      \* tensors.copy()
        t1 == IF "elems" \in DOMAIN t0
              THEN [t0 EXCEPT !["elems"] = Reshape1(@)] ELSE t0
        t2 == IF "dist" \in DOMAIN t1
              THEN [t1 EXCEPT !["dist"] = Reshape1(@)] ELSE t1
    IN  IF "ind_2" \notin DOMAIN t2
        THEN LET t3 == DictUpdate(t2, CellListNL(pre.rc, t2))
             IN  DictUpdate(t3, "prop" :> AtomicOnehot(pre.atom_types, t3["elems"]))
        ELSE t2

\* ==================================================================== PiNet
FirstBlockNodes == <<>>

PiNetInit(a) ==
    LET kw   == [activation |-> a.act]
        base == [depth      |-> a.depth,
                 preprocess |-> [atom_types |-> a.atom_types, rc |-> a.rc],
                 cutoff     |-> [rc |-> a.rc, cutoff_type |-> a.cutoff_type],
                 res_update |-> [k \in 1..a.depth |-> ResUpdateInit(100 + 10 * k)],
                 gc_blocks  |-> <<GCBlockInit(FirstBlockNodes, a.pi_nodes, a.ii_nodes, kw, 10)>>
                                \o [k \in 1..(a.depth - 1) |->
                                      GCBlockInit(a.pp_nodes, a.pi_nodes, a.ii_nodes, kw, 10 + 10 * k)],
                 out_layers |-> [k \in 1..a.depth |->
                                      OutLayerInit(a.out_nodes, a.out_units, NoKwargs, 200 + 10 * k)],
                 ann_output |-> [out_pool |-> a.out_pool]]
    IN  IF a.basis_type = "polynomial"
        THEN base @@ [basis_fn |-> [kind |-> "PolynomialBasis", n_basis |-> a.n_basis]]
        ELSE IF a.basis_type = "gaussian"
        THEN base @@ [basis_fn |-> [kind |-> "GaussianBasis", n_basis |-> a.n_basis]]
        ELSE base

BasisFn(bf, dist, fc) ==
    IF bf.kind = "PolynomialBasis" THEN PolynomialBasis(bf.n_basis, dist, fc)
    ELSE GaussianBasis(bf.n_basis, dist, fc)

\* ------------------------------------------------------ arguments and bags
Depths == (0 - 1)..MaxDepth

BasisTypes == {"polynomial", "gaussian", "bessel"}

NodeChoices ==
    {[pp_nodes |-> <<2>>,    pi_nodes |-> <<2>>, ii_nodes |-> <<2>>],
     [pp_nodes |-> <<3>>,    pi_nodes |-> <<2>>, ii_nodes |-> <<2, 3>>],
     [pp_nodes |-> <<2, 2>>, pi_nodes |-> <<2>>, ii_nodes |-> <<1>>]}

ArgChoices ==
    {[atom_types |-> <<1, 8>>, rc |-> 3, cutoff_type |-> "f1", basis_type |-> bt,
      n_basis |-> 2, pp_nodes |-> nd.pp_nodes, pi_nodes |-> nd.pi_nodes,
      ii_nodes |-> nd.ii_nodes, out_nodes |-> <<2>>, out_units |-> 1,
      out_pool |-> pool, act |-> act, depth |-> d] :
        bt \in BasisTypes, nd \in NodeChoices, pool \in {"False", "sum"},
        act \in {"relu", "linear"}, d \in Depths}

RawBag ==
    [ind_1 |-> <<0, 0, 0, 1>>,
     elems |-> [rank |-> 2, v |-> <<1, 8, 1, 8>>],
     coord |-> <<0, 1, 3, 7>>]

\* what a caller who preprocessed the data himself may supply; the second
\* pair sits at the cutoff radius
Supplied ==
    [ind_2 |-> <<<<0, 1>>, <<0, 2>>, <<1, 0>>, <<2, 0>>>>,
     dist  |-> [rank |-> 2, v |-> <<1, 3, 1, 3>>],
     diff  |-> <<1, 3, 0 - 1, 0 - 3>>,
     prop  |-> Mat(2, <<<<2, 0>>, <<0, 1>>, <<1, 1>>, <<0, 3>>>>)]

OptionalKeys == {"ind_2", "dist", "diff", "prop"}

\* the optional keys a bag comes with: none, some without ind_2, ind_2 with
\* some of the others missing, all four
SuppliedKeySets ==
    {{}, {"prop"}, {"dist", "diff", "prop"}, {"ind_2"}, {"ind_2", "dist"},
     {"ind_2", "prop"}, {"ind_2", "dist", "prop"}, OptionalKeys}

Bags == {[k \in S |-> Supplied[k]] @@ RawBag : S \in SuppliedKeySets}

\* ------------------------------------------------------------------ actions
Raise(e) ==
    /\ pc' = "raised"
    /\ result' = [err |-> e, value |-> NoTensor]

\* net = PiNet(**a)
Construct ==
    /\ pc = "new"
    /\ \E a \in ArgChoices, th \in Thetas :
         /\ args' = a
         /\ net' = PiNetInit(a)
         /\ theta' = th
    /\ pc' = "idle"
    /\ UNCHANGED <<bag, tensors, tref, start, basis, i, prop, output, result, calls, trace,
                 ru, rcall, rshape, fn>>

\* net(bag), line 409: tensors = self.preprocess(tensors)
CallPreprocess ==
    /\ pc \in {"idle", "returned", "raised"}
    /\ calls < MaxCalls
    /\ calls' = calls + 1
    /\ tensors' = PreprocessLayerCall(net.preprocess, bag)
    /\ tref' = DictCopy("bag")
    /\ bag' = Written(tref', bag, tensors')
    /\ start' = IF calls = 0 THEN tensors' ELSE start
    /\ pc' = "basis"
    /\ basis' = NoTensor /\ i' = 0 /\ prop' = NoTensor /\ output' = Scalar(0)
    /\ trace' = <<>> /\ result' = <<>>
    /\ UNCHANGED <<args, net, theta, ru, rcall, rshape, fn>>

\* lines 410-412: cutoff, basis, output = 0.0
CallBasis ==
    /\ pc = "basis"
    /\ IF "dist" \notin DOMAIN tensors
       THEN Raise("KeyError") /\ UNCHANGED <<basis, output>>
       ELSE IF "basis_fn" \notin DOMAIN net
       THEN Raise("AttributeError") /\ UNCHANGED <<basis, output>>
       ELSE /\ basis' = BasisFn(net.basis_fn, tensors["dist"],
                                CutoffFunc(net.cutoff.rc, tensors["dist"]))
            /\ output' = Scalar(0)
            /\ pc' = "gc_block"
            /\ UNCHANGED result
    /\ UNCHANGED <<args, net, theta, bag, tensors, tref, start, i, prop, calls, trace,
                 ru, rcall, rshape, fn>>

\* line 414: prop = self.gc_blocks[i]([tensors["ind_2"], tensors["prop"], basis])
GCStep ==
    /\ pc = "gc_block" /\ i < net.depth
    /\ IF "prop" \notin DOMAIN tensors
       THEN Raise("KeyError") /\ UNCHANGED <<prop, trace>>
       ELSE /\ prop' = GCBlockCall(theta, net.gc_blocks[i + 1], tensors["ind_2"],
                                   tensors["prop"], basis)
            /\ trace' = Append(trace, [i |-> i, before |-> tensors["prop"], candidate |-> prop',
                                       out_in |-> output, out |-> NoTensor, after |-> NoTensor,
                                       done |-> "gc"])
            /\ pc' = "out_layer"
            /\ UNCHANGED result
    /\ UNCHANGED <<args, net, theta, bag, tensors, tref, start, basis, i, output, calls,
                 ru, rcall, rshape, fn>>

\* line 415: output = self.out_layers[i]([tensors["ind_1"], prop, output])
OutStep ==
    /\ pc = "out_layer"
    /\ output' = OutLayerCall(theta, net.out_layers[i + 1], prop, output)
    /\ trace' = [trace EXCEPT ![Len(trace)].out = output', ![Len(trace)].done = "out"]
    /\ pc' = "res_update"
    /\ UNCHANGED <<args, net, theta, bag, tensors, tref, start, basis, i, prop, result, calls,
                 ru, rcall, rshape, fn>>

\* line 416: tensors["prop"] = self.res_update[i]([tensors["prop"], prop])
ResStep ==
    /\ pc = "res_update"
    /\ LET r == ResUpdateCall(theta, net.res_update[i + 1], tensors["prop"], prop)
       IN  /\ net' = [net EXCEPT !.res_update[i + 1] = r.layer]
           /\ IF r.err # ""
              THEN Raise(r.err) /\ UNCHANGED <<tensors, bag, i, trace>>
              ELSE /\ tensors' = [tensors EXCEPT !["prop"] = r.value]
                   /\ bag' = Written(tref, bag, tensors')
                   /\ trace' = [trace EXCEPT ![Len(trace)].after = r.value,
                                             ![Len(trace)].done = "res"]
                   /\ i' = i + 1
                   /\ pc' = "gc_block"
                   /\ UNCHANGED result
    /\ UNCHANGED <<args, theta, tref, start, basis, prop, output, calls,
                 ru, rcall, rshape, fn>>

\* lines 418-419: output = self.ann_output([tensors["ind_1"], output])
\* what the pooling does with the float 0.0 of a network without steps is
\* not fixed by its contract: it may raise or hand the value on
Pool ==
    /\ pc = "gc_block" /\ i >= net.depth
    /\ IF IsScalar(output)
       THEN \/ Raise("InvalidArgumentError")
            \/ /\ pc' = "returned"
               /\ result' = [err |-> "", value |-> output]
       ELSE /\ pc' = "returned"
            /\ result' = [err |-> "",
                          value |-> ANNOutput(net.ann_output.out_pool, tensors["ind_1"], output)]
    /\ UNCHANGED <<args, net, theta, bag, tensors, tref, start, basis, i, prop, output, calls, trace,
                 ru, rcall, rshape, fn>>

\* ------------------------------------------------------------ specifications
NetIdle ==
    /\ args = <<>> /\ net = "none" /\ pc = "new" /\ bag = RawBag /\ tensors = <<>>
    /\ tref = "bag" /\ start = <<>>
    /\ basis = NoTensor /\ i = 0 /\ prop = NoTensor /\ output = Scalar(0)
    /\ result = <<>> /\ calls = 0 /\ trace = <<>>

InitRes == ResInit /\ fn = FnIdle /\ NetIdle

NextRes == ResCall

SpecRes == InitRes /\ [][NextRes]_vars

InitFn ==
    /\ FnInit /\ NetIdle /\ theta = 0
    /\ ru = ResUpdateInit(0) /\ rcall = ResIdle /\ rshape = <<0, 0>>

NextFn == ApplyIPLayer \/ ApplyGCBlock

SpecFn == InitFn /\ [][NextFn]_vars

Init ==
    /\ args = <<>> /\ net = "none" /\ theta = 0 /\ pc = "new"
    /\ bag \in Bags
    /\ tref = "bag" /\ start = <<>>
    /\ tensors = <<>> /\ basis = NoTensor /\ i = 0 /\ prop = NoTensor
    /\ output = Scalar(0) /\ result = <<>> /\ calls = 0 /\ trace = <<>>
    /\ ru = ResUpdateInit(0) /\ rcall = ResIdle /\ rshape = <<0, 0>>
    /\ fn = FnIdle

Next ==
    Construct \/ CallPreprocess \/ CallBasis \/ GCStep \/ OutStep \/ ResStep \/ Pool

Spec == Init /\ [][Next]_vars

\* ============================================================ ResUpdate: C3
ElementwiseSum(x, y) ==
    Mat(y.w, [r \in 1..NRows(y) |-> [c \in 1..y.w |-> x.rows[r][c] + y.rows[r][c]]])

Projected(W, x, y) ==
    Mat(y.w, [r \in 1..NRows(y) |-> [c \in 1..y.w |->
        SumSeq([k \in 1..x.w |-> x.rows[r][k] * W[k][c]]) + y.rows[r][c]]])

\* C3: a call of ResUpdate with the widths (a, b) it is built for returns a
\* tensor of the shape of new; for a = b it is exactly old + new and the layer
\* holds no parameter; for a # b it is old . W + new for a bias-free kernel W
\* of shape (a, b).
C3_ResUpdateContract ==
    (rcall.n > 0 /\ <<rcall.a, rcall.b>> = rshape) =>
        /\ rcall.err = ""
        /\ rcall.value.w = rcall.b
        /\ NRows(rcall.value) = NRows(rcall.new)
        /\ (rcall.a = rcall.b) =>
              /\ ru.transform = "identity" /\ ru.units = 0 /\ ru.in_w = 0
              /\ rcall.value = ElementwiseSum(rcall.old, rcall.new)
        /\ (rcall.a # rcall.b) =>
              /\ ru.transform = "dense" /\ ru.in_w = rcall.a /\ ru.units = rcall.b
              /\ rcall.value =
                   Projected(Kernel(theta, ru.tag, rcall.a, rcall.b), rcall.old, rcall.new)

\* the projection path taken again, after the build, on a non-zero old
C3_Witness ==
    /\ rcall.n > 0 /\ ~rcall.first /\ <<rcall.a, rcall.b>> = rshape
    /\ rcall.a = 2 /\ rcall.b = 3
    /\ rcall.old # Zeros(2, 2)
    /\ rcall.err = "" /\ rcall.value # rcall.new

\* ============================================================ ResUpdate: C7
\* C7: a call after the first one whose widths differ from the widths the
\* layer was built with ends in an error, never in a returned value.
C7_LaterMismatchRaises ==
    (rcall.n > 0 /\ ~rcall.first /\ <<rcall.a, rcall.b>> # rshape) => rcall.err # ""

\* ============================================================== IPLayer: C4
RECURSIVE SumRowsOver(_, _)
SumRowsOver(t, P) ==
    IF P = {} THEN [c \in 1..t.w |-> 0]
    ELSE LET p    == CHOOSE x \in P : TRUE
             rest == SumRowsOver(t, P \ {p})
         IN  [c \in 1..t.w |-> t.rows[p][c] + rest[c]]

Permuted(seq, perm) == [k \in 1..Len(seq) |-> seq[perm[k]]]

\* C4: the IPLayer returns one row per atom; row r is the sum of the
\* interaction rows of exactly the pairs whose first index is r, the zero row
\* when there is none; permuting the pairs together with their interaction
\* rows leaves the result unchanged.
C4_Aggregation ==
    (fn.op = "ip" /\ fn.stage = "out") =>
        /\ NRows(fn.out) = NRows(fn.prop)
        /\ fn.out.w = fn.inter.w
        /\ \A r \in 1..NRows(fn.prop) :
              fn.out.rows[r] =
                SumRowsOver(fn.inter, {p \in 1..Len(fn.ind_2) : fn.ind_2[p][1] = r - 1})
        /\ \A perm \in Permutations(1..Len(fn.ind_2)) :
              IPLayerCall(Permuted(fn.ind_2, perm), fn.prop,
                          Mat(fn.inter.w, Permuted(fn.inter.rows, perm))) = fn.out

\* atom 0 receives the first and the third pair, atom 2 receives none
C4_Witness ==
    /\ fn.op = "ip" /\ fn.stage = "out"
    /\ Len(fn.ind_2) = 3
    /\ fn.ind_2[1][1] = 0 /\ fn.ind_2[2][1] = 1 /\ fn.ind_2[3][1] = 0
    /\ fn.inter.rows[1] # fn.inter.rows[3]
    /\ fn.out.rows[1] = <<1, 1>>
    /\ fn.out.rows[3] = <<0, 0>>

\* ============================================================== GCBlock: C5
ZeroBasisPairs(b) == {p \in 1..NRows(b) : \A k \in 1..b.w : b.rows[p][k] = 0}

\* a sequence without the elements at the positions of P
Without(seq, P) ==
    LET idx == SelectSeq([k \in 1..Len(seq) |-> k], LAMBDA k : k \notin P)
    IN  [j \in 1..Len(idx) |-> seq[idx[j]]]

\* C5: with an activation that maps zero to zero, a pair whose basis row is
\* all zero hands an all-zero interaction row to the IPLayer, and the block's
\* output is the one computed with that pair taken out of the pair list,
\* whatever the properties and the parameters are.
C5_ZeroBasisPairVanishes ==
    (fn.op = "gc" /\ fn.stage = "out" /\ Activation(fn.cfg.act, 0) = 0) =>
        LET Z == ZeroBasisPairs(fn.basis)
        IN  /\ \A p \in Z :
                 GCBlockInter(fn.cfg.th, FnBlock(fn), fn.ind_2, fn.prop, fn.basis).rows[p]
                   = [c \in 1..fn.out.w |-> 0]
            /\ fn.out = GCBlockCall(fn.cfg.th, FnBlock(fn), Without(fn.ind_2, Z), fn.prop,
                                    Mat(fn.basis.w, Without(fn.basis.rows, Z)))

\* one receiver with a pair at the cutoff and a pair inside it, a block with
\* an entity-side transform, and an output that is not zero
C5_Witness ==
    /\ fn.op = "gc" /\ fn.stage = "out" /\ fn.cfg.act = "relu"
    /\ fn.cfg.pp_nodes = <<2>>
    /\ Len(fn.ind_2) = 2 /\ fn.ind_2[1][1] = fn.ind_2[2][1]
    /\ ZeroBasisPairs(fn.basis) = {1}
    /\ fn.out # Zeros(NRows(fn.prop), fn.out.w)

\* ================================================================ PiNet: C1
Recognized == {"polynomial", "gaussian"}

\* C1: a network constructed with depth < 1 or with a basis name outside
\* {polynomial, gaussian} is rejected by the constructor, so that no forward
\* call ever starts on it.
C1_InvalidConfigRejected ==
    (pc # "new" /\ (args.depth < 1 \/ args.basis_type \notin Recognized)) => calls = 0

\* ================================================================ PiNet: C2
StepTerm(k) == OutLayerTerm(theta, net.out_layers[k], trace[k].candidate)

RECURSIVE SumTerms(_)
SumTerms(k) == IF k = 0 THEN Scalar(0) ELSE AddOutput(StepTerm(k), SumTerms(k - 1))

Merge(k, old, new) ==
    IF old.w = new.w THEN ElementwiseSum(old, new)
    ELSE Projected(Kernel(theta, net.res_update[k].tag, old.w, new.w), old, new)

InCall == pc \in {"gc_block", "out_layer", "res_update", "returned"}

\* C2: the steps run in the order 0, 1, ..., depth-1; at step i the block
\* reads the property as it stood before the step, the readout adds the
\* term computed from the block's candidate to the running output, and the
\* property becomes merge(property before, candidate); the output starts at
\* zero, changes once per step, and the pooled value is zero plus the sum of
\* the depth terms.
C2_StepOrder ==
    InCall =>
      /\ \A k \in 1..Len(trace) :
           LET t == trace[k]
           IN  /\ t.i = k - 1
               /\ t.before = IF k = 1
                             THEN PreprocessLayerCall(net.preprocess, bag)["prop"]
                             ELSE trace[k - 1].after
               /\ t.candidate = GCBlockCall(theta, net.gc_blocks[k], tensors["ind_2"],
                                            t.before, basis)
               /\ t.out_in = IF k = 1 THEN Scalar(0) ELSE trace[k - 1].out
               /\ t.done \in {"out", "res"} => t.out = AddOutput(StepTerm(k), t.out_in)
               /\ t.done = "res" => t.after = Merge(k, t.before, t.candidate)
               /\ k < Len(trace) => t.done = "res"
      /\ pc \in {"gc_block", "returned"} =>
           /\ Len(trace) = i
           /\ i > 0 => trace[i].done = "res" /\ output = trace[i].out
           /\ i = 0 => output = Scalar(0)
      /\ pc = "out_layer" =>
           /\ Len(trace) = i + 1 /\ trace[i + 1].done = "gc"
           /\ output = trace[i + 1].out_in
      /\ pc = "res_update" =>
           /\ Len(trace) = i + 1 /\ trace[i + 1].done = "out"
           /\ output = trace[i + 1].out
      /\ (pc = "returned" /\ net.depth >= 1) =>
           /\ i = net.depth
           /\ output = SumTerms(net.depth)
           /\ result.value = ANNOutput(net.ann_output.out_pool, tensors["ind_1"],
                                       SumTerms(net.depth))

\* a call of depth 2 has returned; the property after step 0 differs from
\* the candidate of step 0 and would have given another readout term
C2_Witness ==
    /\ pc = "returned" /\ net.depth = 2 /\ result.err = ""
    /\ trace[1].after # trace[1].candidate
    /\ trace[1].after.w = trace[1].candidate.w
    /\ OutLayerTerm(theta, net.out_layers[1], trace[1].after) # StepTerm(1)
    /\ trace[1].out # Zeros(4, 1)
    /\ trace[2].out # trace[1].out

\* ================================================================ PiNet: C6
PreprocessingRan ==
    /\ tensors["ind_2"] = CellListNL(net.preprocess.rc, bag)["ind_2"]
    /\ "prop" \in DOMAIN tensors
    /\ tensors["prop"] = AtomicOnehot(net.preprocess.atom_types, Reshape1(bag["elems"]))

\* C6: preprocessing is skipped only for a bag that holds all four of
\* ind_2, dist, diff and prop; with any of them missing it runs.
C6_SkippedOnlyWithAllFour ==
    pc = "basis" => (OptionalKeys \subseteq DOMAIN bag \/ PreprocessingRan)

\* ================================================================ PiNet: C8
BlocksBiasFree(pairSynthesisBias) ==
    /\ \A k \in 1..Len(net.gc_blocks) :
         LET blk == net.gc_blocks[k]
         IN  /\ KwUseBias(blk.pp_layer.kwargs)
             /\ KwUseBias(PILayerBuild(blk.pi_layer, args.n_basis).kwargs) = pairSynthesisBias
             /\ ~KwUseBias(blk.ii_layer.kwargs)
    /\ \A k \in 1..Len(net.res_update) :
         net.res_update[k].transform = "dense" => ~KwUseBias(net.res_update[k].kwargs)
    /\ \A k \in 1..Len(net.out_layers) :
         /\ KwUseBias(net.out_layers[k].ff_layer.kwargs)
         /\ ~KwUseBias(net.out_layers[k].out_units.kwargs)

\* C8 as claimed: the FFLayer inside every PILayer, the ii_layer of every
\* block, every ResUpdate projection and every readout output layer have no
\* bias; the pp_layer and the readout's hidden FFLayer have one.
C8_AllPairSideBiasFree == pc # "new" => BlocksBiasFree(FALSE)

\* C8 amended: the ii_layer of every block, every ResUpdate projection and
\* every readout output layer have no bias; the pp_layer, the FFLayer inside
\* every PILayer and the readout's hidden FFLayer have one.
C8_BiasFreeExceptPairSynthesis == pc # "new" => BlocksBiasFree(TRUE)

C8_Witness ==
    /\ pc = "returned" /\ result.err = "" /\ net.depth = 2
    /\ net.res_update[1].transform = "dense"
    /\ Len(net.gc_blocks) = 2 /\ Len(net.out_layers) = 2

\* ================================================================ PiNet: C9
Last(seq) == seq[Len(seq)]

\* C9: when ii_nodes[-1] = pp_nodes[-1], only res_update[0] may hold a
\* projection: at every step i >= 1 the property and the candidate have the
\* same width, ii_nodes[-1], and res_update[i] adds them.
C9_ProjectionOnlyAtStepZero ==
    (pc # "new" /\ Last(args.ii_nodes) = Last(args.pp_nodes)) =>
      /\ \A k \in 2..Len(net.res_update) : net.res_update[k].transform # "dense"
      /\ \A k \in 2..Len(trace) :
           /\ trace[k].before.w = Last(args.ii_nodes)
           /\ trace[k].candidate.w = trace[k].before.w
           /\ trace[k].done = "res" =>
                /\ net.res_update[k].transform = "identity"
                /\ trace[k].after = ElementwiseSum(trace[k].before, trace[k].candidate)

\* the second call of a network whose first ResUpdate projects from the
\* embedding width 2 to width 3 has returned
C9_Witness ==
    /\ pc = "returned" /\ result.err = "" /\ calls = 2 /\ net.depth = 2
    /\ Last(args.ii_nodes) = 3 /\ Last(args.pp_nodes) = 3
    /\ net.res_update[1].transform = "dense"
    /\ net.res_update[2].transform = "identity"

\* =============================================================== PiNet: C10
\* C10: no step of a forward call changes the caller's dictionary, and every
\* call comes out of preprocessing with the dictionary the first call had.
C10_BagUnchanged ==
    /\ [][bag' = bag]_vars
    /\ [](pc = "basis" => tensors = start)

\* the second call on a raw bag has returned: the local dictionary holds the
\* pair keys and a property rebound by the steps, the bag does not
C10_Witness ==
    /\ pc = "returned" /\ result.err = "" /\ calls = 2 /\ net.depth = 2
    /\ "ind_2" \notin DOMAIN bag /\ "prop" \notin DOMAIN bag
    /\ "ind_2" \in DOMAIN tensors
    /\ tensors["prop"] # start["prop"]

====
